---- MODULE Spec2Model ----
(***************************************************************************)
(* Model of main.py: a Google-Maps scraper.                                *)
(*                                                                         *)
(*   extract_coordinates_from_url   pure URL parser                        *)
(*   scrape_business_details        per-listing detail extractor           *)
(*   scroll_and_load_listings       scroll / poll loop over the results    *)
(*   main                           argument handling and the driver loop  *)
(*                                                                         *)
(* Python values: None is the empty set and a present value v is {v}, so   *)
(* that an optional field can be compared whatever its type.  Strings that *)
(* the code parses (URLs, review texts, lines of input.txt) are sequences  *)
(* of one-character strings; strings that the code only copies are TLA+    *)
(* strings.  A float is the exact decimal <<mantissa, fraction digits>>.   *)
(***************************************************************************)
EXTENDS Integers, Sequences, FiniteSets, TLC

VARIABLES
    \* ---- main(): arguments, environment and locals
    pc,                     \* position of the program
    search,                 \* args.search   (None or a string)
    totalArg,               \* args.total    (None or an integer)
    inputFile,              \* input.txt     (None = missing, else its lines)
    total,                  \* main: total
    search_list,            \* main: search_list
    search_index,           \* number of queries searched so far
    business_list,          \* all_businesses.business_list
    browser,                \* "none", "open" or "closed"
    saved,                  \* output files written, with their row counts
    exitStatus,             \* None while running, else the exit status
    diagnostics,            \* number of 'Error ...' lines printed
    activated,              \* listings whose click and settle wait succeeded
    idx,                    \* listings of the current query handed to the extractor
    \* ---- scroll_and_load_listings(): page and locals
    rendered,               \* listing links currently rendered by the page
    previously_counted,
    same_count_iterations,
    listings,               \* the returned list of listing containers
    polled,                 \* the counts polled so far (the first Kept of them)
    polls,                  \* number of polls      (saturates above Kept)
    scrolls,                \* number of scroll gestures (saturates likewise)
    \* ---- scrape_business_details() applied to one panel
    panel,                  \* the responses of the page to one extraction
    scraped,                \* None before the call, else its outcome
    \* ---- extract_coordinates_from_url() applied to one URL
    url,
    coords                  \* None before the call, else the returned pair

mainVars   == <<pc, search, totalArg, inputFile, total, search_list, search_index,
                business_list, browser, saved, exitStatus, diagnostics,
                activated, idx>>
loaderVars == <<rendered, previously_counted, same_count_iterations, listings,
                polled, polls, scrolls>>
detailVars == <<panel, scraped>>
coordVars  == <<url, coords>>
vars       == <<mainVars, loaderVars, detailVars, coordVars>>

----------------------------------------------------------------------------
(* Bounds of the model *)

MaxLinks  == 2      \* links the page renders in a run of main
MaxPolls  == 5      \* polls of a loader call kept in its history
MaxDriverPolls == 1 \* the same, for the loader calls in a run of main
MaxUrlLen == 5      \* characters of a URL given to the coordinate extractor

(* Program constants *)

DefaultTotal == 1000000

----------------------------------------------------------------------------
(* Python values *)

None      == {}
Some(v)   == {v}
The(o)    == CHOOSE v \in o : TRUE

Min(a, b) == IF a < b THEN a ELSE b
Max(a, b) == IF a > b THEN a ELSE b

(* s[lo:hi] for 1-based lo..hi, empty when lo > hi *)
Sub(s, lo, hi) == IF lo > hi THEN << >> ELSE SubSeq(s, lo, hi)

(* seq[:n], n of either sign *)
SliceTo(s, n) ==
    IF n >= 0 THEN Sub(s, 1, Min(n, Len(s)))
    ELSE Sub(s, 1, Max(Len(s) + n, 0))

Whitespace == {" ", "\n", "\t"}
Digits     == {"0", "1", "2", "3", "4", "5", "6", "7", "8", "9"}

DigitVal(c) ==
    CASE c = "0" -> 0 [] c = "1" -> 1 [] c = "2" -> 2 [] c = "3" -> 3
      [] c = "4" -> 4 [] c = "5" -> 5 [] c = "6" -> 6 [] c = "7" -> 7
      [] c = "8" -> 8 [] c = "9" -> 9

(* str.strip() *)
RECURSIVE LStrip(_)
LStrip(s) == IF s # << >> /\ Head(s) \in Whitespace THEN LStrip(Tail(s)) ELSE s

RECURSIVE RStrip(_)
RStrip(s) ==
    IF s # << >> /\ s[Len(s)] \in Whitespace THEN RStrip(Sub(s, 1, Len(s) - 1)) ELSE s

Strip(s) == RStrip(LStrip(s))

(* str.replace(a, b) for single characters *)
Replace(s, a, b) == [i \in 1..Len(s) |-> IF s[i] = a THEN b ELSE s[i]]

(* str.replace(a, '') for a single character *)
RECURSIVE Remove(_, _)
Remove(s, a) ==
    IF s = << >> THEN << >>
    ELSE IF Head(s) = a THEN Remove(Tail(s), a)
    ELSE <<Head(s)>> \o Remove(Tail(s), a)

(* str.split(c)[0]: the text before the first c *)
RECURSIVE BeforeFirst(_, _)
BeforeFirst(s, c) ==
    IF s = << >> \/ Head(s) = c THEN << >>
    ELSE <<Head(s)>> \o BeforeFirst(Tail(s), c)

(* str.split(c): the pieces between the occurrences of c *)
RECURSIVE SplitOn(_, _)
SplitOn(s, c) ==
    LET first == BeforeFirst(s, c)
    IN  IF Len(first) = Len(s) THEN <<first>>
        ELSE <<first>> \o SplitOn(Sub(s, Len(first) + 2, Len(s)), c)

(* str.split('/@')[-1]: the text after the last "/@" *)
AfterLastSlashAt(s) ==
    LET at == {i \in 1..(Len(s) - 1) : s[i] = "/" /\ s[i + 1] = "@"}
    IN  IF at = {} THEN s
        ELSE LET last == CHOOSE i \in at : \A j \in at : j <= i
             IN  Sub(s, last + 2, Len(s))

(* str.split(): the first whitespace-separated word; None when there is
   none, where [0] raises IndexError *)
RECURSIVE BeforeWhitespace(_)
BeforeWhitespace(s) ==
    IF s = << >> \/ Head(s) \in Whitespace THEN << >>
    ELSE <<Head(s)>> \o BeforeWhitespace(Tail(s))

FirstWord(s) ==
    IF LStrip(s) = << >> THEN None ELSE Some(BeforeWhitespace(LStrip(s)))

RECURSIVE DigitsValue(_)
DigitsValue(s) ==
    IF s = << >> THEN 0 ELSE 10 * DigitsValue(Sub(s, 1, Len(s) - 1)) + DigitVal(s[Len(s)])

AllDigits(s) == \A i \in 1..Len(s) : s[i] \in Digits

Unsigned(s) == IF s # << >> /\ Head(s) \in {"+", "-"} THEN Tail(s) ELSE s
Sign(s)     == IF s # << >> /\ Head(s) = "-" THEN -1 ELSE 1

(* int(text): None where int raises ValueError.  Over the characters used
   here: surrounding whitespace, an optional sign, one or more digits. *)
PyInt(text) ==
    LET body == Unsigned(Strip(text))
    IN  IF body # << >> /\ AllDigits(body)
        THEN Some(Sign(Strip(text)) * DigitsValue(body))
        ELSE None

(* <<mantissa, fraction digits>> without trailing fraction zeros *)
RECURSIVE Decimal(_, _)
Decimal(m, e) ==
    IF m = 0 THEN <<0, 0>>
    ELSE IF e > 0 /\ m % 10 = 0 THEN Decimal(m \div 10, e - 1)
    ELSE <<m, e>>

(* float(text): None where float raises ValueError.  Over the characters
   used here: surrounding whitespace, an optional sign, digits with at most
   one point and at least one digit. *)
PyFloat(text) ==
    LET body   == Unsigned(Strip(text))
        whole  == BeforeFirst(body, ".")
        frac   == Sub(body, Len(whole) + 2, Len(body))
        digits == whole \o frac
    IN  IF digits # << >> /\ AllDigits(digits)
        THEN Some(Decimal(Sign(Strip(text)) * DigitsValue(digits), Len(frac)))
        ELSE None

----------------------------------------------------------------------------
(* extract_coordinates_from_url *)

(* the two tokens float() is applied to; None where [1] raises IndexError *)
CoordinateTokens(u) ==
    LET coordinates == BeforeFirst(AfterLastSlashAt(u), "/")
        parts       == SplitOn(coordinates, ",")
    IN  IF Len(parts) < 2 THEN None ELSE Some(<<parts[1], parts[2]>>)

(* a parser that falls back field by field *)
extract_coordinates_per_field(u) ==
    LET coordinates == BeforeFirst(AfterLastSlashAt(u), "/")
        parts       == SplitOn(coordinates, ",")
    IN  << PyFloat(parts[1]),
           IF Len(parts) < 2 THEN None ELSE PyFloat(parts[2]) >>

(* returns <<latitude, longitude>>; every exception gives <<None, None>> *)
extract_coordinates_from_url(u) ==
    LET tokens == CoordinateTokens(u)
    IN  IF tokens = None THEN <<None, None>>
        ELSE LET lat == PyFloat(The(tokens)[1])
                 lng == PyFloat(The(tokens)[2])
             IN  IF lat = None \/ lng = None THEN <<None, None>>
                 ELSE <<lat, lng>>

----------------------------------------------------------------------------
(* scrape_business_details

   The page's answers to one extraction are the record `panel`:
     click            "ok" or "raises": listing.click() and the settle wait
     label            the answer to listing.get_attribute('aria-label')
     address, website, phone_number, reviews_count, reviews_average
                      the field's region: is_visible() is "yes", "no" or
                      "raises", and `read` is the answer to inner_text() or
                      get_attribute() on it
     url              page.url after the click
   An answer is [raises |-> BOOLEAN, value |-> None or the value]. *)

Answer(v) == [raises |-> FALSE, value |-> v]
Raises    == [raises |-> TRUE, value |-> None]

Business(nm, addr, web, phone, count, average, lat, lng) ==
    [name |-> nm, address |-> addr, website |-> web,
     phone_number |-> phone, reviews_count |-> count,
     reviews_average |-> average,
     latitude |-> lat, longitude |-> lng]

(* listing.get_attribute(name_attribute) or "" *)
NameOf(label) == IF label.value = None \/ label.value = Some("") THEN Some("") ELSE label.value

(* address, website, phone_number: the field keeps the dataclass default
   None unless the region is visible; any exception gives "" *)
TextField(region) ==
    IF region.visible = "raises" THEN Some("")
    ELSE IF region.visible = "no" THEN None
    ELSE IF region.read.raises THEN Some("")
    ELSE region.read.value

(* int(review_text.split()[0].replace(',', '').strip()); any exception
   gives None *)
ReviewsCount(region) ==
    IF region.visible # "yes" \/ region.read.raises \/ region.read.value = None
    THEN None
    ELSE LET word == FirstWord(The(region.read.value))
         IN  IF word = None THEN None ELSE PyInt(Remove(The(word), ","))

(* float(avg_text.split()[0].replace(',', '.').strip()); any exception,
   avg_text being None included, gives None *)
ReviewsAverage(region) ==
    IF region.visible # "yes" \/ region.read.raises \/ region.read.value = None
    THEN None
    ELSE LET word == FirstWord(The(region.read.value))
         IN  IF word = None THEN None ELSE PyFloat(Replace(The(word), ",", "."))

(* an extractor that emits the record it has when the listing fails *)
scrape_business_details_partial(p) ==
    IF p.click = "raises" \/ p.label.raises
    THEN [business |-> Some(Business(None, None, None, None, None, None, None, None)),
          errors |-> 1]
    ELSE LET c == extract_coordinates_from_url(p.url)
         IN  [business |-> Some(Business(NameOf(p.label), TextField(p.address),
                                TextField(p.website), TextField(p.phone_number),
                                ReviewsCount(p.reviews_count),
                                ReviewsAverage(p.reviews_average), c[1], c[2])),
              errors |-> 0]

(* returns the Business, or None after printing 'Error scraping business';
   `errors` is the number of lines printed *)
scrape_business_details(p) ==
    IF p.click = "raises" \/ p.label.raises
    THEN [business |-> None, errors |-> 1]
    ELSE LET c == extract_coordinates_from_url(p.url)
         IN  [business |-> Some(Business(NameOf(p.label), TextField(p.address),
                                TextField(p.website), TextField(p.phone_number),
                                ReviewsCount(p.reviews_count),
                                ReviewsAverage(p.reviews_average), c[1], c[2])),
              errors |-> 0]

----------------------------------------------------------------------------
(* scroll_and_load_listings

   `rendered` is the number of listing links the page shows.  The page
   changes it while the program waits (after a search, during the
   wait_for_selector timeout, after a scroll gesture); Counts is the set of
   values it may take.  A link is its position in page order. *)

ParentOf(link) == [parent_of |-> link]

Links(n) == [i \in 1..n |-> i]

(* current_count > total *)
ReachedTarget_strict(current_count, target) == current_count > target

(* current_count >= total *)
ReachedTarget(current_count, target) == current_count >= target

(* same_count_iterations >= 1 *)
Stalled_once(iterations) == iterations >= 1

(* same_count_iterations >= 2 *)
Stalled(iterations) == iterations >= 2

(* the uncaught exception leaves main through the `with` block *)
Uncaught ==
    /\ pc' = "exited"
    /\ exitStatus' = Some(1)
    /\ browser' = IF browser = "open" THEN "closed" ELSE browser

(* page.wait_for_selector(link, timeout=10000), then the locals *)
WaitForSelector(Counts) ==
    /\ pc = "wait_for_selector"
    /\ \/ /\ rendered > 0
          /\ pc' = "poll"
          /\ UNCHANGED <<rendered, exitStatus, browser>>
       \/ /\ rendered = 0
          /\ \E c \in Counts \ {0} : rendered' = c
          /\ pc' = "poll"
          /\ UNCHANGED <<exitStatus, browser>>
       \/ /\ rendered = 0
          /\ Uncaught
          /\ UNCHANGED rendered
    /\ previously_counted' = 0
    /\ same_count_iterations' = 0
    /\ polled' = << >>
    /\ polls' = 0
    /\ scrolls' = 0
    /\ UNCHANGED <<search, totalArg, inputFile, total, search_list, search_index,
                   business_list, saved, diagnostics, activated, idx, listings,
                   detailVars, coordVars>>

(* one iteration of the while loop: count, the two exits, else the scroll
   gesture and the settle wait.  The history keeps the first Kept polls. *)
LoaderPoll(Counts, Kept) ==
    /\ pc = "poll"
    /\ LET current_count == rendered
           stuck         == current_count = previously_counted
           iterations    == IF stuck THEN same_count_iterations + 1 ELSE 0
           leave         == \/ ReachedTarget(current_count, total)
                            \/ stuck /\ Stalled(iterations)
       IN  /\ polled' = IF Len(polled) < Kept
                        THEN Append(polled, current_count) ELSE polled
           /\ polls' = Min(polls + 1, Kept + 1)
           /\ IF ReachedTarget(current_count, total)
              THEN UNCHANGED <<same_count_iterations, previously_counted>>
              ELSE /\ same_count_iterations' = iterations
                   /\ previously_counted' = current_count
           /\ IF leave
              THEN /\ pc' = "collect"
                   /\ UNCHANGED <<rendered, scrolls>>
              ELSE /\ pc' = "poll"
                   /\ scrolls' = Min(scrolls + 1, Kept + 1)
                   /\ \E c \in Counts : rendered' = c
    /\ UNCHANGED <<search, totalArg, inputFile, total, search_list, search_index,
                   business_list, browser, saved, exitStatus, diagnostics,
                   activated, idx, listings, detailVars, coordVars>>

(* locator.all()[:total], each link replaced by its parent *)
LoaderCollect ==
    /\ pc = "collect"
    /\ LET links == SliceTo(Links(rendered), total)
       IN  listings' = [i \in 1..Len(links) |-> ParentOf(links[i])]
    /\ idx' = 0
    /\ pc' = "listings"
    /\ UNCHANGED <<search, totalArg, inputFile, total, search_list, search_index,
                   business_list, browser, saved, exitStatus, diagnostics,
                   activated, rendered, previously_counted,
                   same_count_iterations, polled, polls, scrolls,
                   detailVars, coordVars>>

----------------------------------------------------------------------------
(* main *)

(* [line.strip() for line in file.readlines() if line.strip()] *)
RECURSIVE NonBlankLines(_)
NonBlankLines(lines) ==
    IF lines = << >> THEN << >>
    ELSE IF Strip(Head(lines)) = << >> THEN NonBlankLines(Tail(lines))
    ELSE <<Strip(Head(lines))>> \o NonBlankLines(Tail(lines))

(* total = args.total if args.total else 1_000_000 *)
TotalOf(arg) == IF arg # None /\ The(arg) # 0 THEN The(arg) ELSE DefaultTotal

(* the search list: args.search when it is a non-empty string, else the
   non-blank lines of input.txt when the file exists *)
SearchListOf(arg, file) ==
    IF arg # None /\ The(arg) # << >> THEN <<The(arg)>>
    ELSE IF file = None THEN << >>
    ELSE NonBlankLines(The(file))

(* argument handling; sys.exit() without a status when there is no query *)
ParseArgs ==
    /\ pc = "args"
    /\ total' = TotalOf(totalArg)
    /\ search_list' = SearchListOf(search, inputFile)
    /\ IF search_list' = << >>
       THEN /\ diagnostics' = [diagnostics EXCEPT !.usage = @ + 1]
            /\ exitStatus' = Some(0)
            /\ pc' = "exited"
       ELSE /\ pc' = "launch"
            /\ UNCHANGED <<diagnostics, exitStatus>>
    /\ UNCHANGED <<search, totalArg, inputFile, search_index, business_list,
                   browser, saved, activated, idx, loaderVars, detailVars,
                   coordVars>>

(* launch the browser, open the page, create the empty collection *)
LaunchBrowser ==
    /\ pc = "launch"
    /\ browser' = "open"
    /\ business_list' = << >>
    /\ pc' = "search"
    /\ UNCHANGED <<search, totalArg, inputFile, total, search_list, search_index,
                   saved, exitStatus, diagnostics, activated, idx, loaderVars,
                   detailVars, coordVars>>

(* the next query: fill the search box, press Enter, wait *)
Search(Counts) ==
    /\ pc = "search"
    /\ search_index < Len(search_list)
    /\ search_index' = search_index + 1
    /\ \E c \in Counts : rendered' = c
    /\ pc' = "wait_for_selector"
    /\ UNCHANGED <<search, totalArg, inputFile, total, search_list,
                   business_list, browser, saved, exitStatus, diagnostics,
                   activated, idx, previously_counted, same_count_iterations,
                   listings, polled, polls, scrolls, detailVars, coordVars>>

(* one listing of the for loop: extract, append when a record came back *)
ScrapeListing(Panels) ==
    /\ pc = "listings"
    /\ idx < Len(listings)
    /\ \E p \in Panels :
          LET r == scrape_business_details(p)
          IN  /\ business_list' = IF r.business # None
                                  THEN Append(business_list, The(r.business))
                                  ELSE business_list
              /\ diagnostics' = [diagnostics EXCEPT !.scrape = @ + r.errors]
              /\ activated' = activated + (IF p.click = "ok" THEN 1 ELSE 0)
    /\ idx' = idx + 1
    /\ UNCHANGED <<pc, search, totalArg, inputFile, total, search_list,
                   search_index, browser, saved, exitStatus, loaderVars,
                   detailVars, coordVars>>

(* the for loop over the listings is exhausted: back to the query loop *)
QueryDone ==
    /\ pc = "listings"
    /\ idx = Len(listings)
    /\ pc' = IF search_index < Len(search_list) THEN "search" ELSE "finish"
    /\ UNCHANGED <<search, totalArg, inputFile, total, search_list, search_index,
                   business_list, browser, saved, exitStatus, diagnostics,
                   activated, idx, loaderVars, detailVars, coordVars>>

(* browser.close(), save_to_excel, save_to_csv, normal exit *)
Finish ==
    /\ pc = "finish"
    /\ browser' = "closed"
    /\ saved' = {[file |-> "xlsx", rows |-> Len(business_list)],
                 [file |-> "csv", rows |-> Len(business_list)]}
    /\ exitStatus' = Some(0)
    /\ pc' = "exited"
    /\ UNCHANGED <<search, totalArg, inputFile, total, search_list, search_index,
                   business_list, diagnostics, activated, idx, loaderVars,
                   detailVars, coordVars>>

----------------------------------------------------------------------------
(* Inputs *)

Text(str) == Answer(Some(str))

Region(visible, read) == [visible |-> visible, read |-> read]

Hidden == Region("no", Raises)

PlainUrl == <<"m", "/", "p">>
PlaceUrl == <<"/", "@", "1", ".", "5", ",", "-", "2", ",", "9", "z", "/">>
HalfUrl  == <<"/", "@", "1", ".", "5", ",", "n", "/">>

ReviewTexts  == { <<"1", ",", "2", "3", "4", " ", "r">>, <<"r">>, << >>, <<"7">> }
AverageTexts == { <<"4", ",", "5", " ", "s">>, <<"4", ".", "0">>, <<"s">> }

TextRegions(strs) ==
    {Hidden, Region("raises", Raises), Region("yes", Raises)}
        \cup {Region("yes", Text(t)) : t \in strs}

(* every answer of the page to one extraction *)
AllPanels ==
    [click : {"ok", "raises"},
     label : {Raises, Answer(None), Text(""), Text("Cafe")},
     address : TextRegions({"1 Main St"}),
     website : TextRegions({"cafe.example"}),
     phone_number : TextRegions({"555"}),
     reviews_count : TextRegions(ReviewTexts),
     reviews_average : TextRegions(AverageTexts) \cup {Region("yes", Answer(None))},
     url : {PlainUrl, PlaceUrl, HalfUrl}]

FullPanel ==
    [click |-> "ok", label |-> Text("Cafe"),
     address |-> Region("yes", Text("1 Main St")),
     website |-> Region("yes", Text("cafe.example")),
     phone_number |-> Region("yes", Text("555")),
     reviews_count |-> Region("yes", Text(<<"1", ",", "2", "3", "4", " ", "r">>)),
     reviews_average |-> Region("yes", Text(<<"4", ",", "5", " ", "s">>)),
     url |-> PlaceUrl]

BarePanel ==
    [click |-> "ok", label |-> Answer(None),
     address |-> Hidden, website |-> Hidden, phone_number |-> Hidden,
     reviews_count |-> Hidden, reviews_average |-> Hidden, url |-> PlainUrl]

(* the answers of the page in a run of main *)
DriverPanels ==
    { FullPanel, BarePanel,
      [FullPanel EXCEPT !.click = "raises"],
      [FullPanel EXCEPT !.label = Raises] }

DriverCounts == 0..MaxLinks

Searches == {None, Some(<< >>), Some(<<"c">>)}

InputFiles ==
    { None, Some(<< >>), Some(<< <<" ", "\n">>, <<"\n">> >>),
      Some(<< <<"a", "\n">>, <<"\n">>, <<" ", "b", " ", "\n">> >>) }

TotalArgs == {None} \cup {Some(n) : n \in (-1)..MaxLinks}

(* what the loader is tried on: the counts and targets of the two examples *)
PollCounts    == {0, 5, 12, 20, 45}
LoaderTargets == {-1, 1, 20, 100}

UrlChars == {"/", "@", ",", ".", "-", "1"}
Urls     == UNION {[1..n -> UrlChars] : n \in 0..MaxUrlLen}

----------------------------------------------------------------------------
(* Specifications *)

IdleLoader ==
    /\ rendered = 0
    /\ previously_counted = 0
    /\ same_count_iterations = 0
    /\ listings = << >>
    /\ polled = << >>
    /\ polls = 0
    /\ scrolls = 0

IdleDetail == panel = BarePanel /\ scraped = None
IdleCoord  == url = << >> /\ coords = None

IdleMain ==
    /\ search = None
    /\ totalArg = None
    /\ inputFile = None
    /\ search_list = << >>
    /\ search_index = 0
    /\ business_list = << >>
    /\ saved = {}
    /\ exitStatus = None
    /\ diagnostics = [usage |-> 0, scrape |-> 0]
    /\ activated = 0
    /\ idx = 0

(* the program, from its start *)
Init ==
    /\ pc = "args"
    /\ search \in Searches
    /\ totalArg \in TotalArgs
    /\ inputFile \in InputFiles
    /\ total = 0
    /\ search_list = << >>
    /\ search_index = 0
    /\ business_list = << >>
    /\ browser = "none"
    /\ saved = {}
    /\ exitStatus = None
    /\ diagnostics = [usage |-> 0, scrape |-> 0]
    /\ activated = 0
    /\ idx = 0
    /\ IdleLoader /\ IdleDetail /\ IdleCoord

Next ==
    \/ ParseArgs
    \/ LaunchBrowser
    \/ Search(DriverCounts)
    \/ WaitForSelector(DriverCounts)
    \/ LoaderPoll(DriverCounts, MaxDriverPolls)
    \/ LoaderCollect
    \/ ScrapeListing(DriverPanels)
    \/ QueryDone
    \/ Finish

Spec == Init /\ [][Next]_vars

(* one call of scroll_and_load_listings on an open page *)
LoaderInit ==
    /\ pc = "wait_for_selector"
    /\ IdleMain
    /\ browser = "open"
    /\ total \in LoaderTargets
    /\ rendered \in PollCounts
    /\ previously_counted = 0
    /\ same_count_iterations = 0
    /\ listings = << >>
    /\ polled = << >>
    /\ polls = 0
    /\ scrolls = 0
    /\ IdleDetail /\ IdleCoord

LoaderNext ==
    \/ WaitForSelector(PollCounts)
    \/ LoaderPoll(PollCounts, MaxPolls)
    \/ LoaderCollect

LoaderSpec == LoaderInit /\ [][LoaderNext]_vars

(* the loader's loop runs as long as it can *)
FairLoaderSpec == LoaderSpec /\ WF_vars(LoaderNext)

(* one call of scrape_business_details *)
Scrape ==
    /\ scraped = None
    /\ scraped' = Some(scrape_business_details(panel))
    /\ UNCHANGED <<mainVars, loaderVars, panel, coordVars>>

DetailInit ==
    /\ pc = "detail"
    /\ IdleMain /\ browser = "open" /\ total = 0
    /\ IdleLoader
    /\ panel \in AllPanels
    /\ scraped = None
    /\ IdleCoord

DetailSpec == DetailInit /\ [][Scrape]_vars

(* one call of extract_coordinates_from_url *)
ExtractCoordinates ==
    /\ coords = None
    /\ coords' = Some(extract_coordinates_from_url(url))
    /\ UNCHANGED <<mainVars, loaderVars, detailVars, url>>

CoordInit ==
    /\ pc = "coordinates"
    /\ IdleMain /\ browser = "none" /\ total = 0
    /\ IdleLoader /\ IdleDetail
    /\ url \in Urls
    /\ coords = None

CoordSpec == CoordInit /\ [][ExtractCoordinates]_vars

----------------------------------------------------------------------------
(* Properties *)

LoaderStopped == pc \in {"collect", "listings"}

FirstContainers(n) == [k \in 1..n |-> ParentOf(k)]

StartsWith(s, prefix) ==
    Len(s) >= Len(prefix) /\ SubSeq(s, 1, Len(prefix)) = prefix

(* C1: for a target >= 1, scroll_and_load_listings stops at the first poll
   whose count is >= target, makes no scroll gesture after that poll, and
   returns exactly the first `target` listing containers (the parent of each
   link, in page order). *)
C1_StopsAtTarget ==
    total >= 1 =>
        \A i \in 1..Len(polled) :
            polled[i] >= total =>
                /\ polls = i
                /\ scrolls = i - 1
                /\ LoaderStopped
                /\ pc = "listings" => listings = FirstContainers(total)

(* polled counts 5, 20 with target 20: stopped at the second poll with the
   first 20 containers *)
C1_Witness ==
    /\ pc = "listings"
    /\ total = 20
    /\ polled = <<5, 20>>
    /\ scrolls = 1
    /\ listings = FirstContainers(20)

(* C2 as stated: with polled counts 5, 12, 12, 12 and target 100 the loader
   stops after the third poll and returns 12 listings. *)
C2_StopsAfterThirdPoll ==
    (total = 100 /\ StartsWith(polled, <<5, 12, 12>>)) =>
        /\ polls = 3
        /\ LoaderStopped
        /\ pc = "listings" => Len(listings) = 12

(* C2, amended: with polled counts 5, 12, 12, 12 and target 100 the loader
   does not stop at the third poll (the first unchanged count); it stops
   after the fourth poll (the second unchanged count in a row), after three
   scroll gestures, and returns 12 listings. *)
C2_StopsAfterFourthPoll ==
    (total = 100 /\ StartsWith(polled, <<5, 12, 12>>)) =>
        IF polls = 3
        THEN pc = "poll" /\ scrolls = 3
        ELSE polled[4] = 12 =>
                /\ polls = 4
                /\ scrolls = 3
                /\ LoaderStopped
                /\ pc = "listings" => listings = FirstContainers(12)

C2_Witness ==
    /\ pc = "listings"
    /\ total = 100
    /\ polled = <<5, 12, 12, 12>>
    /\ polls = 4
    /\ Len(listings) = 12

(* C3: the polling loop of scroll_and_load_listings eventually terminates,
   whatever counts the page shows. *)
C3_Terminates == <>(pc \in {"collect", "listings", "exited"})

(* C4: a listing whose activation step raises adds no record, prints one
   diagnostic, and the loop goes on to the next listing; when the listings
   are exhausted main goes on to the next query, or to the sink after the
   last one. *)
C4_ActivationFailureSkipsOne ==
    [][ /\ (pc = "listings" /\ idx < Len(listings) /\ activated' = activated) =>
            /\ business_list' = business_list
            /\ diagnostics'.scrape = diagnostics.scrape + 1
            /\ idx' = idx + 1
            /\ pc' = "listings"
            /\ UNCHANGED <<listings, search_list, search_index, browser,
                           exitStatus, saved>>
        /\ (pc = "listings" /\ pc' # "listings") =>
            /\ idx = Len(listings)
            /\ pc' = IF search_index < Len(search_list) THEN "search" ELSE "finish"
      ]_vars

(* the first of two listings has just failed to activate, and a second
   query is still to come *)
C4_Witness ==
    /\ pc = "listings"
    /\ Len(listings) = 2
    /\ idx = 1
    /\ activated = 0
    /\ diagnostics.scrape = 1
    /\ business_list = << >>
    /\ search_index = 1
    /\ Len(search_list) = 2

(* C5: at the end of a run the collection holds one record for each listing
   whose activation step succeeded, whatever happened to its fields. *)
C5_RowsAreActivatedListings ==
    (pc = "exited" /\ saved # {}) =>
        /\ Len(business_list) = activated
        /\ \A f \in saved : f.rows = activated

(* C6: a query that shows no listing link stops neither the later queries
   nor the hand-over of the collection: a run that opened the browser ends
   with every query searched and the output written. *)
C6_EveryQueryThenSink ==
    (pc = "exited" /\ browser = "closed") =>
        /\ search_index = Len(search_list)
        /\ saved # {}

(* C7: in the returned record, address, website and phone_number are ""
   when their region is not visible or the check raises; reviews_count and
   reviews_average are None in those cases. *)
C7_AbsentFieldDefaults ==
    \A r \in scraped : \A b \in r.business :
        /\ panel.address.visible # "yes" => b.address = Some("")
        /\ panel.website.visible # "yes" => b.website = Some("")
        /\ panel.phone_number.visible # "yes" => b.phone_number = Some("")
        /\ panel.reviews_count.visible # "yes" => b.reviews_count = None
        /\ panel.reviews_average.visible # "yes" => b.reviews_average = None

(* C8: with no query from --search or input.txt, main ends before a browser
   is opened and before any output is written, with a non-zero exit status. *)
C8_NoQueryExit ==
    (pc = "exited" /\ search_list = << >>) =>
        /\ browser = "none"
        /\ saved = {}
        /\ exitStatus \notin {None, Some(0)}

(* C9: for every integer N given as --total, zero and negative included, the
   loader returns at most N listings. *)
C9_AtMostTotal ==
    (totalArg # None /\ pc = "listings") => Len(listings) <= The(totalArg)

BothOrNeither(lat, lng) == (lat = None) <=> (lng = None)

(* C10: latitude and longitude are both present or both absent, in the pair
   extract_coordinates_from_url returns and in every record built from it;
   the pair is (None, None) whenever one of the two tokens is missing or
   does not parse. *)
C10_BothOrNeither ==
    /\ \A c \in coords :
          /\ BothOrNeither(c[1], c[2])
          /\ LET tokens == CoordinateTokens(url)
             IN  (\/ tokens = None
                  \/ \E t \in tokens : PyFloat(t[1]) = None \/ PyFloat(t[2]) = None)
                 => c = <<None, None>>
    /\ \A r \in scraped : \A b \in r.business :
          BothOrNeither(b.latitude, b.longitude)
    /\ \A i \in 1..Len(business_list) :
          BothOrNeither(business_list[i].latitude, business_list[i].longitude)

(* "/@1,-": the first token parses and the second does not *)
C10_Witness ==
    /\ url = <<"/", "@", "1", ",", "-">>
    /\ coords = Some(<<None, None>>)

====
